---- MODULE Spec2Model ----
(***************************************************************************)
(* Model of the two text-generation adapters of archon/models:             *)
(*   GeminiModel  (gemini.py)  - the cloud SDK adapter                     *)
(*   OllamaModel  (ollama.py)  - the HTTP / newline-delimited JSON adapter *)
(* One generate() call on one adapter instance is modelled.  A streaming   *)
(* call is an async generator: it runs only while the consumer waits for   *)
(* the next chunk and is suspended at every yield.                         *)
(*                                                                         *)
(* Text is a sequence of pieces; "" is <<>> and + is \o.  Python None is   *)
(* the string "None" where the value is otherwise a string.                *)
(***************************************************************************)
EXTENDS Integers, Sequences, FiniteSets, TLC

VARIABLES
    adapter,           \* "gemini" | "ollama": the class of the instance
    config,            \* base_url and api_key of the instance (OllamaModel)
    request,           \* the arguments of generate()
    pc,                \* position of the call / of the generator body
    consumer,          \* the caller's async for: "idle" (holds a chunk or has
                       \* not asked yet), "waiting", "finished", "abandoned",
                       \* "raised"
    requested,         \* the number of chunks the consumer has asked for
    chunks,            \* the chunks yielded so far, in order
    result,            \* <<>> or <<r>>: the dict returned by a non-streaming call
    accumulated_text,  \* local accumulated_text of _generate_stream
    prompt_tokens,     \* local prompt_tokens of _generate_stream
    cur,               \* local chunk / chunk_data: the native item being processed
    consumed,          \* the native chunks / response lines obtained from the backend
    failure,           \* the last exception raised inside the call, and where
    connOpen,          \* the HTTP response / SDK stream of the call is open
    backendCalls,      \* the number of requests issued to the backend
    sent,              \* <<>> or <<r>>: the HTTP request sent (OllamaModel)
    calls              \* the calls in progress when two callers share one instance

vars == <<adapter, config, request, pc, consumer, requested, chunks, result,
          accumulated_text, prompt_tokens, cur, consumed, failure, connOpen,
          backendCalls, sent, calls>>

(***************************************************************************)
(* Bounds                                                                  *)
(***************************************************************************)
MaxItems == 3      \* native chunks / response lines one stream may deliver

(***************************************************************************)
(* Values                                                                  *)
(***************************************************************************)
None == "None"
model_name == "m"
EmptyMap == [k \in {} |-> 0]

Frags == {<<"a">>, <<"b">>}                    \* non-empty text fragments
Texts == {<<>>, <<"a">>, <<"b">>, <<"a", "b">>} \* whole response texts
Prompts == {<<"a">>, <<"a", "b">>}
SystemPrompts == {[some |-> FALSE, v |-> <<>>],      \* system_prompt=None
                  [some |-> TRUE, v |-> <<>>],       \* system_prompt=""
                  [some |-> TRUE, v |-> <<"b">>]}
Exceptions == {"ConnectError", "ReadTimeout"}  \* transport / SDK failures

\* if system_prompt:
Truthy(sp) == sp.some /\ sp.v # <<>>

(***************************************************************************)
(* self.tokenizer.encode: the token count of a text.  The tokenizer is a   *)
(* byte-pair encoder: a text is cut into the longest pieces of its         *)
(* vocabulary.  It is modelled by a vocabulary of four tokens, "a", "b",   *)
(* "ba" and "aba", so that, as for the real vocabulary, the count of a     *)
(* concatenation is not the sum of the counts and a text can have more     *)
(* tokens than a longer text it is a prefix of ("ab" is two tokens, "aba"  *)
(* is one).                                                                *)
(***************************************************************************)
RECURSIVE Estimate(_)
Estimate(t) ==
    IF Len(t) = 0 THEN 0
    ELSE IF Len(t) >= 3 /\ t[1] = "a" /\ t[2] = "b" /\ t[3] = "a"
         THEN 1 + Estimate(SubSeq(t, 4, Len(t)))
    ELSE IF Len(t) >= 2 /\ t[1] = "b" /\ t[2] = "a"
         THEN 1 + Estimate(SubSeq(t, 3, Len(t)))
    ELSE 1 + Estimate(Tail(t))

\* Variant: the system prompt is not counted.
PromptTokens_UserOnly(p, sp) == Estimate(p)

PromptTokens(p, sp) ==
    Estimate(p) + (IF Truthy(sp) THEN Estimate(sp.v) ELSE 0)

\* Variant: the total leaves the prompt out.
Usage_NoPrompt(pt, text) ==
    [prompt_tokens |-> pt,
     completion_tokens |-> Estimate(text),
     total_tokens |-> Estimate(text)]

Usage(pt, text) ==
    [prompt_tokens |-> pt,
     completion_tokens |-> Estimate(text),
     total_tokens |-> pt + Estimate(text)]

ErrorPrefix == <<"Error generating content: ">>

Dict(text, fr, usage) ==
    [text |-> text, model |-> model_name, finish_reason |-> fr, usage |-> usage]

(***************************************************************************)
(* Backend inputs                                                          *)
(***************************************************************************)
NoItem == [kind |-> "none"]

\* Native chunks of the SDK stream: a chunk with a text attribute (possibly
\* empty), a chunk without one, a chunk whose processing raises.
GeminiItems ==
    {[kind |-> "text", text |-> t] : t \in {<<>>} \cup Frags}
    \cup {[kind |-> "notext", text |-> <<>>], [kind |-> "raise", text |-> <<>>]}

\* Backend metrics of a JSON object: none, all three, one of them.
MetricMaps == {EmptyMap,
               [eval_count |-> 3, eval_duration |-> 5, total_duration |-> 9],
               [eval_count |-> 3]}

Obj(m, c, t, d, mt) ==
    [kind |-> "obj", message |-> m, content |-> c, text |-> t, done |-> d,
     metrics |-> mt]

\* Every shape of message / message.content of a JSON object: message absent
\* or not an object; content absent, null, a non-string value, a string.
Shapes(texts) ==
    {<<"absent", "absent", <<>> >>, <<"nonobj", "absent", <<>> >>,
     <<"obj", "absent", <<>> >>, <<"obj", "null", <<>> >>,
     <<"obj", "nonstr", <<>> >>}
    \cup {<<"obj", "str", t>> : t \in texts}

NonObj == [kind |-> "nonobj"]      \* valid JSON that is not an object
BadJson == [kind |-> "badjson"]    \* text that is not JSON
EmptyLine == [kind |-> "empty"]

\* Lines of a streaming response.  Metrics are varied on the lines whose done
\* flag is set: the code reads them on no other line.
OllamaLines ==
    {EmptyLine, BadJson, NonObj}
    \cup {Obj(s[1], s[2], s[3], FALSE, EmptyMap) : s \in Shapes({<<>>} \cup Frags)}
    \cup {Obj(s[1], s[2], s[3], TRUE, mt) :
            s \in Shapes({<<>>} \cup Frags), mt \in MetricMaps}

\* What the POST of a non-streaming call produces: a transport exception, a
\* non-2xx status, or a 2xx body.
OllamaOutcomes ==
    {[kind |-> "raise", e |-> e] : e \in Exceptions}
    \cup {[kind |-> "status", e |-> "HTTPStatusError"]}
    \cup {BadJson, NonObj}
    \cup {Obj(s[1], s[2], s[3], FALSE, mt) : s \in Shapes(Texts), mt \in MetricMaps}

\* What generate_content_async produces: an exception, a response with a
\* text, a response whose text accessor raises.
GeminiOutcomes ==
    {[kind |-> "raise", e |-> e] : e \in Exceptions}
    \cup {[kind |-> "response", text |-> t] : t \in Texts}
    \cup {[kind |-> "notext", e |-> "ValueError"]}

NoFailure == [at |-> "none", e |-> None]

(***************************************************************************)
(* Non-streaming path                                                      *)
(***************************************************************************)
GeminiErrorResult(e) == Dict(ErrorPrefix \o <<e>>, "error", EmptyMap)

GeminiSuccessResult(p, sp, response_text) ==
    Dict(response_text, "stop", Usage(PromptTokens(p, sp), response_text))

\* The exception the try block of GeminiModel.generate catches, None if none.
GeminiCallError(out) ==
    IF out.kind = "response" THEN None ELSE out.e

GeminiGenerateResult(p, sp, out) ==
    IF GeminiCallError(out) # None
    THEN GeminiErrorResult(GeminiCallError(out))
    ELSE GeminiSuccessResult(p, sp, out.text)

\* x.get("message", {}).get("content", ""): the value, with its type.
Content(j) ==
    IF j.message = "absent" \/ j.content = "absent"
    THEN [type |-> "str", text |-> <<>>]
    ELSE [type |-> j.content, text |-> j.text]

\* Variant: the metric of the body is not read.
Metric_Default(j, key) == 0

\* d.get(key, 0)
Metric(j, key) == IF key \in DOMAIN j.metrics THEN j.metrics[key] ELSE 0

OllamaUsage(pt, text, j) ==
    [prompt_tokens |-> pt,
     completion_tokens |-> Estimate(text),
     total_tokens |-> pt + Estimate(text),
     eval_count |-> Metric(j, "eval_count"),
     eval_duration |-> Metric(j, "eval_duration"),
     total_duration |-> Metric(j, "total_duration")]

\* Variant: the error result carries zeroed counters instead of no usage.
OllamaErrorResult_ZeroUsage(e) ==
    Dict(ErrorPrefix \o <<e>>, "error", Usage(0, <<>>))

OllamaErrorResult(e) == Dict(ErrorPrefix \o <<e>>, "error", EmptyMap)

OllamaSuccessResult(p, sp, j) ==
    Dict(Content(j).text, "stop",
         OllamaUsage(PromptTokens(p, sp), Content(j).text, j))

\* The exception the try block of OllamaModel.generate catches, None if none:
\* from the POST, raise_for_status, response.json(), the .get chain on a
\* value that is not a dict, tokenizer.encode on a value that is not a string.
OllamaCallError(out) ==
    IF out.kind \in {"raise", "status"} THEN out.e
    ELSE IF out.kind = "badjson" THEN "JSONDecodeError"
    ELSE IF out.kind = "nonobj" THEN "AttributeError"
    ELSE IF out.message = "nonobj" THEN "AttributeError"
    ELSE IF Content(out).type # "str" THEN "TypeError"
    ELSE None

OllamaGenerateResult(p, sp, out) ==
    IF OllamaCallError(out) # None
    THEN OllamaErrorResult(OllamaCallError(out))
    ELSE OllamaSuccessResult(p, sp, out)

(***************************************************************************)
(* Streaming path: the chunks                                              *)
(***************************************************************************)
\* Variant: the incremental chunk carries the accumulated text.
GeminiTextChunk_Accumulated(pt, acc, text) == Dict(acc, None, Usage(pt, acc))

\* gemini.py 187-196
GeminiTextChunk(pt, acc, text) == Dict(text, None, Usage(pt, acc))

\* Variant: the per-chunk handler reports zeroed counters.
GeminiChunkError_ZeroUsage == Dict(<<>>, "error", Usage(0, <<>>))

\* gemini.py 199-204
GeminiChunkError == Dict(<<>>, "error", EmptyMap)

\* gemini.py 207-216
GeminiStopChunk(pt, acc) == Dict(<<>>, "stop", Usage(pt, acc))

\* Variant: the outer handler drops the exception text.
GeminiStreamError_NoText(e) == Dict(<<>>, "error", EmptyMap)

\* gemini.py 220-225
GeminiStreamError(e) == Dict(ErrorPrefix \o <<e>>, "error", EmptyMap)

\* Variant: the incremental chunk counts the tokens of its own fragment.
OllamaTextChunk_FragmentCount(pt, acc, text) ==
    Dict(text, None, Usage(pt, text))

\* ollama.py 246-255
OllamaTextChunk(pt, acc, text) == Dict(text, None, Usage(pt, acc))

\* ollama.py 260-273
OllamaStopChunk(pt, acc, j) == Dict(<<>>, "stop", OllamaUsage(pt, acc, j))

\* ollama.py 281-286
OllamaLineErrorChunk == Dict(<<>>, "error", EmptyMap)

\* Variant: the outer handler yields the same chunk as the per-line handler.
OllamaStreamError_EmptyText(e) == Dict(<<>>, "error", EmptyMap)

\* ollama.py 291-296
OllamaStreamError(e) == Dict(ErrorPrefix \o <<e>>, "error", EmptyMap)

(***************************************************************************)
(* Streaming path: one native item                                         *)
(* Each operator gives the effect of the generator body from the point     *)
(* where it holds the item to its next yield or to the loop head:          *)
(*   out - the chunk yielded (<<>> if none), acc - accumulated_text,       *)
(*   pc  - the position reached, err - the exception caught (None if none) *)
(***************************************************************************)
Step(out, acc, p, err) == [out |-> out, acc |-> acc, pc |-> p, err |-> err]

\* The body of the for loop of GeminiModel._generate_stream.
GeminiProcessChunk(item, acc, pt) ==
    IF item.kind = "raise"
    THEN Step(<<GeminiChunkError>>, acc, "y_err", "ValueError")
    ELSE IF item.kind = "text" /\ item.text # <<>>
    THEN Step(<<GeminiTextChunk(pt, acc \o item.text, item.text)>>,
              acc \o item.text, "y_text", None)
    ELSE Step(<<>>, acc, "loop", None)

\* Where the generator of GeminiModel._generate_stream goes when it is
\* resumed after a yield: the yields inside the loop are followed by the next
\* iteration, the two yields after it by the end of the body.
GeminiAfterYield(p) ==
    IF p \in {"y_text", "y_err"} THEN "loop" ELSE "exit"

\* Variant: a message that is not an object is read like an absent one.
OllamaLineError_MessageUnchecked(line) ==
    IF line.kind = "nonobj" THEN "AttributeError"
    ELSE IF line.message = "nonobj" THEN None
    ELSE IF Content(line).type = "nonstr" THEN "TypeError"
    ELSE None

\* The exception the per-line try block of OllamaModel._generate_stream
\* raises other than JSONDecodeError, None if none: .get on a value that is
\* not a dict, accumulated_text += a value that is not a string.
OllamaLineError(line) ==
    IF line.kind = "nonobj" THEN "AttributeError"
    ELSE IF line.message = "nonobj" THEN "AttributeError"
    ELSE IF Content(line).type = "nonstr" THEN "TypeError"
    ELSE None

\* chunk_text when it is truthy, "" otherwise
OllamaLineText(line) ==
    IF Content(line).type = "str" THEN Content(line).text ELSE <<>>

\* The done check of a parsed line and what follows it (ollama.py 257-274).
OllamaDoneCheck(line, acc, pt) ==
    IF line.done
    THEN Step(<<OllamaStopChunk(pt, acc, line)>>, acc, "y_stop", None)
    ELSE Step(<<>>, acc, "loop", None)

\* Variant: JSONDecodeError is handled by the general handler.
OllamaProcessLine_BadJsonFatal(line, acc, pt) ==
    IF line.kind = "empty" THEN Step(<<>>, acc, "loop", None)
    ELSE IF line.kind = "badjson"
    THEN Step(<<OllamaLineErrorChunk>>, acc, "y_err", "JSONDecodeError")
    ELSE IF OllamaLineError(line) # None
    THEN Step(<<OllamaLineErrorChunk>>, acc, "y_err", OllamaLineError(line))
    ELSE IF OllamaLineText(line) # <<>>
    THEN Step(<<OllamaTextChunk(pt, acc \o OllamaLineText(line),
                                OllamaLineText(line))>>,
              acc \o OllamaLineText(line), "y_text", None)
    ELSE OllamaDoneCheck(line, acc, pt)

\* The body of the for loop of OllamaModel._generate_stream up to its first
\* yield (ollama.py 231-287).
OllamaProcessLine(line, acc, pt) ==
    IF line.kind = "empty" THEN Step(<<>>, acc, "loop", None)
    ELSE IF line.kind = "badjson" THEN Step(<<>>, acc, "loop", None)
    ELSE IF OllamaLineError(line) # None
    THEN Step(<<OllamaLineErrorChunk>>, acc, "y_err", OllamaLineError(line))
    ELSE IF OllamaLineText(line) # <<>>
    THEN Step(<<OllamaTextChunk(pt, acc \o OllamaLineText(line),
                                OllamaLineText(line))>>,
              acc \o OllamaLineText(line), "y_text", None)
    ELSE OllamaDoneCheck(line, acc, pt)

\* Variant: the terminal yields inside the loop are not followed by break.
OllamaAfterYield_NoBreak(p) ==
    IF p = "y_text" THEN "done_check"
    ELSE IF p \in {"y_stop", "y_err"} THEN "loop"
    ELSE "exit"

\* Variant: the incremental yield is followed by the next line.
OllamaAfterYield_SkipDoneCheck(p) ==
    IF p = "y_text" THEN "loop" ELSE "exit"

\* Variant: the yield of the per-line handler is not followed by break.
OllamaAfterYield_ErrorContinues(p) ==
    IF p = "y_text" THEN "done_check"
    ELSE IF p = "y_err" THEN "loop"
    ELSE "exit"

\* Where the generator of OllamaModel._generate_stream goes when it is
\* resumed after a yield: the incremental yield is followed by the done
\* check, the terminal yields by break, the outer handler by the end.
OllamaAfterYield(p) ==
    IF p = "y_text" THEN "done_check" ELSE "exit"

(***************************************************************************)
(* The HTTP request of OllamaModel                                         *)
(***************************************************************************)
\* An optional argument: [some |-> FALSE] is None.
Unset(v) == [some |-> FALSE, v |-> v]
Set(v) == [some |-> TRUE, v |-> v]

\* A base URL: origin, path segments, trailing slash.
Url(path, slash) ==
    [origin |-> "http://localhost:11434", path |-> path, slash |-> slash]

DefaultBaseUrl == Url(<<>>, FALSE)
BaseUrls == {Url(<<>>, FALSE), Url(<<>>, TRUE),
             Url(<<"v1">>, FALSE), Url(<<"v1">>, TRUE)}
ApiKeys == {None, "", "k"}
MaxTokensValues == {Unset(0), Set(0), Set(5)}
StopValues == {Unset(<<>>), Set(<<>>), Set(<<"x">>)}

\* "/api/chat": a reference with an absolute path.
ChatPath == [absolute |-> TRUE, path |-> <<"api", "chat">>]

\* urllib.parse.urljoin(base, ref): an absolute path replaces the path of the
\* base; a relative one replaces its last segment.
urljoin(base, ref) ==
    [origin |-> base.origin,
     path |-> IF ref.absolute THEN ref.path
              ELSE (IF base.slash \/ base.path = <<>> THEN base.path
                    ELSE SubSeq(base.path, 1, Len(base.path) - 1)) \o ref.path,
     slash |-> FALSE]

messages(req) ==
    (IF Truthy(req.system_prompt)
     THEN <<[role |-> "system", content |-> req.system_prompt.v]>>
     ELSE <<>>)
    \o <<[role |-> "user", content |-> req.prompt]>>

\* payload["options"]: num_predict under "if max_tokens:", stop under
\* "if stop_sequences:".
options(req) ==
    [temperature |-> req.temperature, top_p |-> "0.95", top_k |-> 40]
    @@ (IF req.max_tokens.some /\ req.max_tokens.v # 0
        THEN [num_predict |-> req.max_tokens.v] ELSE EmptyMap)
    @@ (IF req.stop_sequences.some /\ req.stop_sequences.v # <<>>
        THEN [stop |-> req.stop_sequences.v] ELSE EmptyMap)

payload(req) ==
    [model |-> model_name, messages |-> messages(req), stream |-> req.stream,
     options |-> options(req)]

headers(cfg) ==
    ("Content-Type" :> "application/json")
    @@ (IF cfg.api_key \notin {None, ""}
        THEN ("Authorization" :> <<"Bearer ", cfg.api_key>>) ELSE EmptyMap)

\* client.post(...) / client.stream("POST", ...)
HttpRequest(cfg, req) ==
    [method |-> "POST", url |-> urljoin(cfg.base_url, ChatPath),
     json |-> payload(req), headers |-> headers(cfg),
     timeout |-> IF req.stream THEN 120 ELSE 60]

(***************************************************************************)
(* Control of the call                                                     *)
(***************************************************************************)
\* Variant: a failed backend call is issued a second time.
Attempts_RetryOnce(err) == IF err # None THEN 2 ELSE 1

\* How many times the try block issues the backend call, given the
\* exception it catches (None if none): the call is outside any loop and the
\* handler builds the error value.
Attempts(err) == 1

\* Variant: the producer runs ahead of the consumer.
GeneratorRuns_Eager == consumer \in {"idle", "waiting"}

\* The body of an async generator runs only inside __anext__, from the
\* consumer's request to the next yield.
GeneratorRuns == consumer = "waiting"

\* The positions at which the generator is suspended at a yield.
AtYield == {"y_text", "y_err", "y_stop", "y_outer"}

\* GeneratorExit at the yield where OllamaModel._generate_stream is
\* suspended: it is not an Exception, so no handler catches it; the yields
\* of the loop are inside the two async with blocks, which close the
\* response and the client.
OllamaOnClose(p, open) == {FALSE}

\* GeneratorExit at the yield where GeminiModel._generate_stream is
\* suspended: no statement of the body releases stream_response; what
\* becomes of the SDK stream is left to the collection of the object.
GeminiOnClose(p, open) == {open, FALSE}

(***************************************************************************)
(* Initial state: an adapter instance and the arguments of one call        *)
(***************************************************************************)
Requests(maxTokens, stops) ==
    [prompt : Prompts, system_prompt : SystemPrompts, stream : BOOLEAN,
     temperature : {"0.7"}, max_tokens : maxTokens, stop_sequences : stops]

InitCall ==
    /\ pc = "idle"
    /\ consumer = "idle"
    /\ requested = 0
    /\ chunks = <<>>
    /\ result = <<>>
    /\ accumulated_text = <<>>
    /\ prompt_tokens = 0
    /\ cur = NoItem
    /\ consumed = <<>>
    /\ failure = NoFailure
    /\ connOpen = FALSE
    /\ backendCalls = 0
    /\ sent = <<>>

Init ==
    /\ adapter \in {"gemini", "ollama"}
    /\ config = [base_url |-> DefaultBaseUrl, api_key |-> None]
    /\ request \in Requests({Unset(0)}, {Unset(<<>>)})
    /\ InitCall
    /\ calls = <<>>

instVars == <<adapter, config, request, calls>>
streamVars == <<chunks, accumulated_text, prompt_tokens, cur, connOpen>>

(***************************************************************************)
(* Non-streaming calls                                                     *)
(***************************************************************************)
GeminiGenerate ==
    /\ adapter = "gemini" /\ pc = "idle" /\ ~request.stream
    /\ \E out \in GeminiOutcomes :
         /\ result' = <<GeminiGenerateResult(request.prompt,
                                             request.system_prompt, out)>>
         /\ consumed' = <<out>>
         /\ failure' = IF GeminiCallError(out) # None
                       THEN [at |-> "call", e |-> GeminiCallError(out)]
                       ELSE NoFailure
         /\ backendCalls' = backendCalls + Attempts(GeminiCallError(out))
    /\ pc' = "returned"
    /\ UNCHANGED <<instVars, consumer, requested, streamVars, sent>>

OllamaGenerate ==
    /\ adapter = "ollama" /\ pc = "idle" /\ ~request.stream
    /\ \E out \in OllamaOutcomes :
         /\ result' = <<OllamaGenerateResult(request.prompt,
                                             request.system_prompt, out)>>
         /\ consumed' = <<out>>
         /\ failure' = IF OllamaCallError(out) # None
                       THEN [at |-> "call", e |-> OllamaCallError(out)]
                       ELSE NoFailure
         /\ backendCalls' = backendCalls + Attempts(OllamaCallError(out))
    /\ sent' = <<HttpRequest(config, request)>>
    /\ pc' = "returned"
    /\ UNCHANGED <<instVars, consumer, requested, streamVars>>

(***************************************************************************)
(* Streaming calls                                                         *)
(***************************************************************************)
\* await generate(stream=True) hands back the generator; its body has not
\* started.
GenerateStream ==
    /\ pc = "idle" /\ request.stream
    /\ pc' = "start"
    /\ UNCHANGED <<instVars, consumer, requested, result, consumed, failure,
                   streamVars, backendCalls, sent>>

\* generate(stream=True) without await, as the tests call it: generate is a
\* coroutine function, the caller holds a coroutine and no statement of
\* generate has run.
GenerateUnawaited ==
    /\ pc = "idle" /\ request.stream
    /\ pc' = "coroutine"
    /\ UNCHANGED <<instVars, consumer, requested, result, consumed, failure,
                   streamVars, backendCalls, sent>>

\* async for over the coroutine: it has no __aiter__, TypeError is raised in
\* the caller.
AsyncForOverCoroutine ==
    /\ pc = "coroutine" /\ consumer = "idle"
    /\ consumer' = "raised"
    /\ UNCHANGED <<instVars, pc, requested, result, consumed, failure,
                   streamVars, backendCalls, sent>>

\* The consumer's async for asks for the next chunk.
Request ==
    /\ consumer = "idle"
    /\ pc \in {"start", "loop"} \cup AtYield
    /\ consumer' = "waiting"
    /\ requested' = requested + 1
    /\ UNCHANGED <<instVars, pc, result, consumed, failure, streamVars,
                   backendCalls, sent>>

\* The consumer stops iterating before the stream has ended.
Abandon ==
    /\ consumer = "idle"
    /\ pc \in {"start"} \cup AtYield
    /\ consumer' = "abandoned"
    /\ UNCHANGED <<instVars, pc, requested, result, consumed, failure,
                   streamVars, backendCalls, sent>>

\* The abandoned generator is closed (aclose by the event loop's finalizer
\* once the object is unreachable): GeneratorExit is raised at its yield.
Finalize ==
    /\ consumer = "abandoned"
    /\ pc \in {"start"} \cup AtYield
    /\ pc' = "closed"
    /\ connOpen' \in (IF pc = "start" THEN {connOpen}
                      ELSE IF adapter = "ollama"
                      THEN OllamaOnClose(pc, connOpen)
                      ELSE GeminiOnClose(pc, connOpen))
    /\ UNCHANGED <<instVars, consumer, requested, result, consumed, failure,
                   chunks, accumulated_text, prompt_tokens, cur,
                   backendCalls, sent>>

\* A yield: the chunk goes to the consumer and the generator is suspended.
Yield(out) ==
    /\ chunks' = chunks \o out
    /\ consumer' = IF out = <<>> THEN consumer ELSE "idle"

\* The generator body ends: the consumer's loop ends.
Exit ==
    /\ pc' = "ended"
    /\ consumer' = "finished"
    /\ connOpen' = FALSE

GeminiStreamStart ==
    /\ adapter = "gemini" /\ pc = "start" /\ GeneratorRuns
    /\ \/ \E e \in Exceptions :
            /\ failure' = [at |-> "start", e |-> e]
            /\ backendCalls' = backendCalls + Attempts(e)
            /\ Yield(<<GeminiStreamError(e)>>)
            /\ pc' = "y_outer"
            /\ UNCHANGED <<accumulated_text, prompt_tokens, connOpen>>
       \/ /\ backendCalls' = backendCalls + Attempts(None)
          /\ accumulated_text' = <<>>
          /\ prompt_tokens' = PromptTokens(request.prompt, request.system_prompt)
          /\ connOpen' = TRUE
          /\ pc' = "loop"
          /\ UNCHANGED <<failure, chunks, consumer>>
    /\ UNCHANGED <<instVars, requested, result, cur, consumed, sent>>

GeminiNextChunk ==
    /\ adapter = "gemini" /\ pc = "loop" /\ GeneratorRuns
    /\ \/ \E item \in GeminiItems :
            /\ Len(consumed) < MaxItems
            /\ LET s == GeminiProcessChunk(item, accumulated_text, prompt_tokens)
               IN  /\ cur' = item
                   /\ consumed' = Append(consumed, item)
                   /\ accumulated_text' = s.acc
                   /\ Yield(s.out)
                   /\ pc' = s.pc
                   /\ failure' = IF s.err # None
                                 THEN [at |-> "item", e |-> s.err]
                                 ELSE failure
            /\ UNCHANGED connOpen
       \/ \* the native stream is exhausted
          /\ Yield(<<GeminiStopChunk(prompt_tokens, accumulated_text)>>)
          /\ pc' = "y_stop"
          /\ connOpen' = FALSE
          /\ UNCHANGED <<cur, consumed, accumulated_text, failure>>
       \/ \* obtaining the next native chunk raises
          \E e \in Exceptions :
            /\ failure' = [at |-> "iter", e |-> e]
            /\ Yield(<<GeminiStreamError(e)>>)
            /\ pc' = "y_outer"
            /\ connOpen' = FALSE
            /\ UNCHANGED <<cur, consumed, accumulated_text>>
    /\ UNCHANGED <<instVars, requested, result, prompt_tokens, backendCalls,
                   sent>>

GeminiResume ==
    /\ adapter = "gemini" /\ GeneratorRuns
    /\ pc \in AtYield
    /\ IF GeminiAfterYield(pc) = "exit"
       THEN Exit
       ELSE /\ pc' = GeminiAfterYield(pc)
            /\ UNCHANGED <<consumer, connOpen>>
    /\ UNCHANGED <<instVars, requested, result, chunks, accumulated_text,
                   prompt_tokens, cur, consumed, failure, backendCalls, sent>>

OllamaStreamStart ==
    /\ adapter = "ollama" /\ pc = "start" /\ GeneratorRuns
    /\ prompt_tokens' = PromptTokens(request.prompt, request.system_prompt)
    /\ sent' = <<HttpRequest(config, request)>>
    /\ \/ \* client.stream or raise_for_status raises
          \E e \in Exceptions \cup {"HTTPStatusError"} :
            /\ failure' = [at |-> "start", e |-> e]
            /\ backendCalls' = backendCalls + Attempts(e)
            /\ Yield(<<OllamaStreamError(e)>>)
            /\ pc' = "y_outer"
            /\ UNCHANGED <<accumulated_text, connOpen>>
       \/ /\ backendCalls' = backendCalls + Attempts(None)
          /\ accumulated_text' = <<>>
          /\ connOpen' = TRUE
          /\ pc' = "loop"
          /\ UNCHANGED <<failure, chunks, consumer>>
    /\ UNCHANGED <<instVars, requested, result, cur, consumed>>

OllamaNextLine ==
    /\ adapter = "ollama" /\ pc = "loop" /\ GeneratorRuns
    /\ \/ \E line \in OllamaLines :
            /\ Len(consumed) < MaxItems
            /\ LET s == OllamaProcessLine(line, accumulated_text, prompt_tokens)
               IN  /\ cur' = line
                   /\ consumed' = Append(consumed, line)
                   /\ accumulated_text' = s.acc
                   /\ Yield(s.out)
                   /\ pc' = s.pc
                   /\ failure' = IF s.err # None
                                 THEN [at |-> "item", e |-> s.err]
                                 ELSE failure
            /\ UNCHANGED connOpen
       \/ \* the response has no further line: the loop and the body end
          /\ Exit
          /\ UNCHANGED <<chunks, cur, consumed, accumulated_text, failure>>
       \/ \* reading the next line raises
          \E e \in Exceptions :
            /\ failure' = [at |-> "iter", e |-> e]
            /\ Yield(<<OllamaStreamError(e)>>)
            /\ pc' = "y_outer"
            /\ connOpen' = FALSE
            /\ UNCHANGED <<cur, consumed, accumulated_text>>
    /\ UNCHANGED <<instVars, requested, result, prompt_tokens, backendCalls,
                   sent>>

OllamaResume ==
    /\ adapter = "ollama" /\ GeneratorRuns
    /\ pc \in AtYield
    /\ IF OllamaAfterYield(pc) = "exit"
       THEN /\ Exit
            /\ UNCHANGED chunks
       ELSE IF OllamaAfterYield(pc) = "done_check"
       THEN LET s == OllamaDoneCheck(cur, accumulated_text, prompt_tokens)
            IN  /\ Yield(s.out)
                /\ pc' = s.pc
                /\ UNCHANGED connOpen
       ELSE /\ pc' = OllamaAfterYield(pc)
            /\ UNCHANGED <<chunks, consumer, connOpen>>
    /\ UNCHANGED <<instVars, requested, result, accumulated_text,
                   prompt_tokens, cur, consumed, failure, backendCalls, sent>>

Next ==
    \/ GeminiGenerate
    \/ OllamaGenerate
    \/ GenerateStream
    \/ GenerateUnawaited
    \/ AsyncForOverCoroutine
    \/ Request
    \/ Abandon
    \/ Finalize
    \/ GeminiStreamStart
    \/ GeminiNextChunk
    \/ GeminiResume
    \/ OllamaStreamStart
    \/ OllamaNextLine
    \/ OllamaResume

Spec == Init /\ [][Next]_vars

TypeOK ==
    /\ adapter \in {"gemini", "ollama"}
    /\ consumer \in {"idle", "waiting", "finished", "abandoned", "raised"}
    /\ pc \in {"idle", "returned", "start", "coroutine", "loop", "y_text",
               "y_err", "y_stop", "y_outer", "ended", "closed"}
    /\ requested \in Nat
    /\ backendCalls \in Nat
    /\ Len(result) <= 1
    /\ Len(sent) <= 1
    /\ Len(consumed) <= MaxItems
    /\ connOpen \in BOOLEAN

(***************************************************************************)
(* Vocabulary of the properties.  These definitions read the backend's     *)
(* inputs (consumed, failure) and the outputs (chunks, result) only.       *)
(***************************************************************************)
Last(s) == s[Len(s)]

Streaming(a) == adapter = a /\ request.stream

\* The positions at which every chunk of the stream has been yielded.
Ended == pc = "ended"

Indices(fr) == {i \in 1..Len(chunks) : chunks[i].finish_reason = fr}

\* A native item whose processing raises inside the per-item try block.
Raises(item) ==
    \/ item.kind \in {"raise", "nonobj"}
    \/ item.kind = "obj" /\ item.message = "nonobj"
    \/ item.kind = "obj" /\ item.message = "obj" /\ item.content = "nonstr"

\* The text a native item carries.
TextOf(item) ==
    IF item.kind = "text" THEN item.text
    ELSE IF item.kind = "obj" /\ item.message = "obj" /\ item.content = "str"
    THEN item.text
    ELSE <<>>

\* The response text the backend has delivered, fragment after fragment.
RECURSIVE Delivered(_)
Delivered(items) ==
    IF items = <<>> THEN <<>>
    ELSE Delivered(SubSeq(items, 1, Len(items) - 1)) \o TextOf(Last(items))

\* The number of native items that carry a non-empty text.
NumText(items) == Cardinality({i \in 1..Len(items) : TextOf(items[i]) # <<>>})

\* The in-order concatenation of the texts of the incremental chunks.
RECURSIVE ConcatText(_)
ConcatText(cs) ==
    IF cs = <<>> THEN <<>>
    ELSE ConcatText(SubSeq(cs, 1, Len(cs) - 1))
         \o (IF Last(cs).finish_reason = None THEN Last(cs).text ELSE <<>>)

IsError(d, text) ==
    d.finish_reason = "error" /\ d.usage = EmptyMap /\ d.text = text

(***************************************************************************)
(* C1: in a Gemini stream, once the processing of a native chunk has       *)
(* raised, the stream holds exactly one error chunk (text "", usage {})    *)
(* and that chunk is the last chunk: no incremental chunk and no "stop"    *)
(* chunk follows it.                                                       *)
(***************************************************************************)
C1_ChunkErrorEndsStream ==
    (Streaming("gemini") /\ \E i \in 1..Len(consumed) : consumed[i].kind = "raise")
    => /\ Cardinality(Indices("error")) = 1
       /\ IsError(Last(chunks), <<>>)

(***************************************************************************)
(* C2: a stream of either adapter that was read to exhaustion has emitted  *)
(* at least one chunk and its last chunk has finish_reason "stop" or       *)
(* "error".                                                                *)
(***************************************************************************)
C2_StreamEndsWithTerminalChunk ==
    (request.stream /\ Ended)
    => /\ chunks # <<>>
       /\ Last(chunks).finish_reason \in {"stop", "error"}

(***************************************************************************)
(* C3: in an Ollama stream at most one chunk has a non-null finish_reason  *)
(* and no chunk follows it.                                                *)
(***************************************************************************)
C3_OllamaTerminalIsLast ==
    Streaming("ollama")
    => \A i \in 1..Len(chunks) :
         chunks[i].finish_reason # None => i = Len(chunks)

\* A stream that terminated although the backend had more lines to send,
\* after at least one incremental chunk.
C3_Witness ==
    /\ Streaming("ollama") /\ Ended
    /\ Len(chunks) >= 2 /\ Last(chunks).finish_reason \in {"stop", "error"}
    /\ Len(consumed) < MaxItems

(***************************************************************************)
(* C4: a non-streaming generate() whose backend call fails (transport      *)
(* exception, non-2xx status, SDK exception) returns a value: one result   *)
(* with finish_reason "error", usage {} and a text that embeds the         *)
(* exception text.                                                         *)
(***************************************************************************)
C4_GenerateReturnsErrorValue ==
    (pc = "returned" /\ consumed[1].kind \in {"raise", "status"})
    => /\ Len(result) = 1
       /\ IsError(result[1], ErrorPrefix \o <<consumed[1].e>>)

C4_Witness ==
    /\ pc = "returned" /\ ~request.stream
    /\ consumed[1].kind \in {"raise", "status"}
    /\ Len(result) = 1 /\ result[1].finish_reason = "error"

(***************************************************************************)
(* C5: a stream whose start fails yields exactly one chunk in total, with  *)
(* finish_reason "error", usage {} and the exception text, and then ends   *)
(* normally for the consumer.                                              *)
(***************************************************************************)
C5_StartFailureYieldsOneErrorChunk ==
    (request.stream /\ failure.at = "start")
    => /\ Len(chunks) = 1
       /\ IsError(chunks[1], ErrorPrefix \o <<failure.e>>)
       /\ consumed = <<>>
       /\ pc \in {"y_outer", "ended", "closed"}
       /\ pc = "ended" => consumer = "finished"

C5_Witness ==
    /\ request.stream /\ failure.at = "start" /\ Ended
    /\ Len(chunks) = 1 /\ consumer = "finished"

(***************************************************************************)
(* Shapes of a JSON value that decodes but is not the documented object.   *)
(***************************************************************************)
\* Not a JSON object, or message present and not an object.
NotAnObject(j) ==
    j.kind = "nonobj" \/ (j.kind = "obj" /\ j.message = "nonobj")

\* message absent, or message.content absent.
FieldAbsent(j) ==
    j.kind = "obj"
    /\ (j.message = "absent" \/ (j.message = "obj" /\ j.content = "absent"))

UnexpectedShape(j) == NotAnObject(j) \/ FieldAbsent(j)

(***************************************************************************)
(* C6 as stated: in the Ollama adapter a decoded body or line of           *)
(* unexpected shape (not an object, message absent or not an object,       *)
(* message.content absent) always gives an in-band error: the              *)
(* non-streaming result has finish_reason "error" and the stream ends with *)
(* an "error" chunk.                                                       *)
(***************************************************************************)
C6_UnexpectedShapeIsError ==
    /\ (adapter = "ollama" /\ pc = "returned" /\ UnexpectedShape(consumed[1]))
       => (Len(result) = 1 /\ result[1].finish_reason = "error")
    /\ (Streaming("ollama") /\ Ended
        /\ \E i \in 1..Len(consumed) : UnexpectedShape(consumed[i]))
       => (chunks # <<>> /\ Last(chunks).finish_reason = "error")

(***************************************************************************)
(* C6 amended: in the Ollama adapter a decoded body or line that is not a  *)
(* JSON object, or whose message is present and not an object, gives an    *)
(* in-band error on both paths (the result, or the last chunk of the       *)
(* stream, has finish_reason "error", and nothing is read after the line). *)
(* An absent message or an absent message.content is read as empty text:   *)
(* the non-streaming call returns finish_reason "stop" with text "", and   *)
(* in a stream the line yields no incremental chunk and no error chunk.    *)
(***************************************************************************)
C6_ShapeHandling ==
    /\ (adapter = "ollama" /\ pc = "returned" /\ NotAnObject(consumed[1]))
       => (Len(result) = 1 /\ result[1].finish_reason = "error"
           /\ result[1].usage = EmptyMap)
    /\ (adapter = "ollama" /\ pc = "returned" /\ FieldAbsent(consumed[1]))
       => (Len(result) = 1 /\ result[1].finish_reason = "stop"
           /\ result[1].text = <<>>)
    /\ Streaming("ollama")
       => /\ \A i \in 1..Len(consumed) :
               NotAnObject(consumed[i])
               => /\ i = Len(consumed)
                  /\ chunks # <<>>
                  /\ IsError(Last(chunks), <<>>)
                  /\ pc \in {"y_err", "ended", "closed"}
          /\ Cardinality(Indices(None)) = NumText(consumed)
          /\ ((\A i \in 1..Len(consumed) : ~Raises(consumed[i]))
              /\ failure.at \notin {"start", "iter"})
             => Indices("error") = {}

\* Both halves of the amended claim have happened in one stream: a line
\* without message was passed over and a later line that is not an object
\* ended the stream with an error chunk.
C6_Witness ==
    /\ Streaming("ollama") /\ Ended
    /\ Len(consumed) >= 2
    /\ FieldAbsent(consumed[1])
    /\ NotAnObject(Last(consumed))
    /\ Last(chunks).finish_reason = "error"

(***************************************************************************)
(* C7 as stated: every result and every chunk with finish_reason "error"   *)
(* has a non-empty text that starts with the descriptive prefix.           *)
(***************************************************************************)
C7_ErrorTextNeverEmpty ==
    /\ \A i \in 1..Len(chunks) :
         chunks[i].finish_reason = "error"
         => (chunks[i].text # <<>> /\ chunks[i].text[1] = ErrorPrefix[1])
    /\ \A i \in 1..Len(result) :
         result[i].finish_reason = "error"
         => (result[i].text # <<>> /\ result[i].text[1] = ErrorPrefix[1])

(***************************************************************************)
(* C7 amended: an error result of the non-streaming path, and the error    *)
(* chunk of a start failure or of a mid-stream transport failure, has the  *)
(* text "Error generating content: " followed by the exception text; the   *)
(* error chunk of a per-chunk / per-line processing failure has text "".   *)
(***************************************************************************)
C7_ErrorText ==
    /\ \A i \in 1..Len(result) :
         result[i].finish_reason = "error"
         => /\ Len(result[i].text) = 2
            /\ result[i].text[1] = ErrorPrefix[1]
            /\ result[i].text[2] = failure.e
    /\ (request.stream /\ failure.at \in {"start", "iter"})
       => /\ chunks # <<>>
          /\ IsError(Last(chunks), ErrorPrefix \o <<failure.e>>)
    /\ request.stream
       => /\ Cardinality({i \in Indices("error") : chunks[i].text = <<>>})
             = Cardinality({i \in 1..Len(consumed) : Raises(consumed[i])})
          /\ Cardinality({i \in Indices("error") : chunks[i].text # <<>>})
             = (IF failure.at \in {"start", "iter"} THEN 1 ELSE 0)

\* A mid-stream transport failure after an incremental chunk.
C7_Witness ==
    /\ request.stream /\ failure.at = "iter" /\ Ended
    /\ Len(chunks) >= 2
    /\ Last(chunks).text = ErrorPrefix \o <<failure.e>>

(***************************************************************************)
(* C8: in an Ollama stream a line with done:true and a non-empty           *)
(* message.content yields exactly two chunks, the incremental chunk        *)
(* (finish_reason null, the trailing text, cumulative usage including it)  *)
(* and then the terminal chunk ("stop", text ""); a done:true line with    *)
(* empty or absent text yields the terminal chunk only.                    *)
(***************************************************************************)
DoneLine(j) ==
    j.kind = "obj" /\ j.done /\ (FieldAbsent(j) \/ (j.message = "obj" /\ j.content = "str"))

C8_DoneLineChunks ==
    (Streaming("ollama") /\ consumed # <<>> /\ DoneLine(Last(consumed))
     /\ pc \in {"y_stop", "ended"})
    => LET line == Last(consumed)
           before == NumText(SubSeq(consumed, 1, Len(consumed) - 1))
           n == Len(chunks)
       IN  /\ chunks[n].finish_reason = "stop" /\ chunks[n].text = <<>>
           /\ chunks[n].usage.completion_tokens = Estimate(Delivered(consumed))
           /\ IF TextOf(line) # <<>>
              THEN /\ n = before + 2
                   /\ chunks[n - 1].finish_reason = None
                   /\ chunks[n - 1].text = TextOf(line)
                   /\ chunks[n - 1].usage.completion_tokens
                        = Estimate(Delivered(consumed))
                   /\ chunks[n - 1].usage.total_tokens
                        = chunks[n - 1].usage.prompt_tokens
                          + Estimate(Delivered(consumed))
              ELSE n = before + 1

\* A done:true line with trailing text, after an earlier text line.
C8_Witness ==
    /\ Streaming("ollama") /\ Ended
    /\ Len(consumed) >= 2 /\ DoneLine(Last(consumed))
    /\ TextOf(Last(consumed)) # <<>> /\ TextOf(consumed[1]) # <<>>
    /\ Len(chunks) = 3

(***************************************************************************)
(* C9: in an Ollama stream a non-empty line that is not JSON emits no      *)
(* chunk, does not end the stream and leaves the accumulated text          *)
(* unchanged; a later done:true line gives the terminal "stop" chunk with  *)
(* the cumulative usage of all the text before and after the bad line.     *)
(***************************************************************************)
HasBadLine == \E i \in 1..Len(consumed) : consumed[i] = BadJson

C9_BadLineSkipped ==
    (Streaming("ollama") /\ HasBadLine)
    => /\ accumulated_text = Delivered(consumed)
       /\ ConcatText(chunks) = Delivered(consumed)
       /\ Cardinality(Indices(None)) = NumText(consumed)
       /\ Last(consumed) = BadJson
          => /\ pc \in {"loop", "y_outer", "ended", "closed"}
             /\ Indices("stop") = {}
             /\ \A i \in Indices("error") : chunks[i].text # <<>>
       /\ (DoneLine(Last(consumed)) /\ pc \in {"y_stop", "ended"})
          => /\ Last(chunks).finish_reason = "stop"
             /\ Last(chunks).usage.completion_tokens
                  = Estimate(Delivered(consumed))
             /\ Last(chunks).usage.total_tokens
                  = PromptTokens(request.prompt, request.system_prompt)
                    + Estimate(Delivered(consumed))

\* Text, a bad line, then a done:true line with more text.
C9_Witness ==
    /\ Streaming("ollama") /\ Ended
    /\ Len(consumed) = 3
    /\ TextOf(consumed[1]) # <<>> /\ consumed[2] = BadJson
    /\ DoneLine(consumed[3]) /\ TextOf(consumed[3]) # <<>>
    /\ Last(chunks).finish_reason = "stop"

(***************************************************************************)
(* C10: for a successful stream of either adapter the in-order             *)
(* concatenation of the text of the non-terminal chunks equals the text    *)
(* the non-streaming call returns when the backend delivers the same       *)
(* response text whole.                                                    *)
(***************************************************************************)
NonStreamingText ==
    IF adapter = "gemini"
    THEN GeminiGenerateResult(request.prompt, request.system_prompt,
             [kind |-> "response", text |-> Delivered(consumed)]).text
    ELSE OllamaGenerateResult(request.prompt, request.system_prompt,
             Obj("obj", "str", Delivered(consumed), FALSE, EmptyMap)).text

C10_StreamTextEqualsNonStreamingText ==
    (request.stream /\ chunks # <<>> /\ Last(chunks).finish_reason = "stop")
    => ConcatText(chunks) = NonStreamingText

\* A successful stream whose text arrived in two fragments.
C10_Witness ==
    /\ request.stream /\ Ended
    /\ chunks # <<>> /\ Last(chunks).finish_reason = "stop"
    /\ NumText(consumed) >= 2
    /\ ConcatText(chunks) = <<"a", "b">>

(***************************************************************************)
(* C11: within one stream usage.completion_tokens never decreases from an  *)
(* earlier chunk to a later one, up to and including the terminal chunk.   *)
(***************************************************************************)
Counted == {i \in 1..Len(chunks) : chunks[i].usage # EmptyMap}

C11_CompletionTokensNonDecreasing ==
    request.stream
    => \A i, j \in Counted :
         i < j => chunks[i].usage.completion_tokens
                    <= chunks[j].usage.completion_tokens

(***************************************************************************)
(* C12: every usage record that reports token counts (a non-streaming      *)
(* success result, an incremental chunk, a terminal "stop" chunk) holds    *)
(* non-negative prompt_tokens, completion_tokens and total_tokens with     *)
(* total_tokens = prompt_tokens + completion_tokens.                       *)
(***************************************************************************)
TokenCountsOK(d) ==
    /\ {"prompt_tokens", "completion_tokens", "total_tokens"}
         \subseteq DOMAIN d.usage
    /\ d.usage.prompt_tokens \in Nat
    /\ d.usage.completion_tokens \in Nat
    /\ d.usage.total_tokens \in Nat
    /\ d.usage.total_tokens
         = d.usage.prompt_tokens + d.usage.completion_tokens

C12_TotalIsPromptPlusCompletion ==
    /\ \A i \in 1..Len(chunks) :
         chunks[i].finish_reason # "error" => TokenCountsOK(chunks[i])
    /\ \A i \in 1..Len(result) :
         result[i].finish_reason # "error" => TokenCountsOK(result[i])

\* A stream with a counted system prompt that ended after two fragments.
C12_Witness ==
    /\ request.stream /\ Ended /\ Truthy(request.system_prompt)
    /\ chunks # <<>> /\ Last(chunks).finish_reason = "stop"
    /\ Cardinality(Indices(None)) >= 2
    /\ Last(chunks).usage.completion_tokens >= 1
    /\ Last(chunks).usage.total_tokens > Last(chunks).usage.completion_tokens

(***************************************************************************)
(* C13: when the consumer abandons a stream before its terminal chunk, the *)
(* connection or backend stream opened for it is released: no execution    *)
(* has the consumer stopped, the generator closed and the connection open. *)
(***************************************************************************)
C13_AbandonedStreamReleased ==
    (consumer = "abandoned" /\ pc = "closed") => ~connOpen

(***************************************************************************)
(* Two calls in progress on one adapter instance.  Each call has a frame   *)
(* (its arguments, position, locals and outputs); calls advances one call  *)
(* at a time, from one await or yield to the next, in any interleaving.    *)
(***************************************************************************)
MaxConcItems == 2       \* native chunks or lines a concurrent stream reads

CallIds == {1, 2}

\* The arguments of the two calls: the first is a stream, the second a
\* stream or a non-streaming call.
ConcRequests(c) ==
    IF c = 1
    THEN {r \in Requests({Unset(0)}, {Unset(<<>>)}) :
            r.stream /\ r.prompt = <<"a">> /\ ~r.system_prompt.some}
    ELSE {r \in Requests({Unset(0)}, {Unset(<<>>)}) :
            r.prompt = <<"a", "b">> /\ ~r.system_prompt.some}

ConcItems(a) ==
    IF a = "gemini"
    THEN {[kind |-> "text", text |-> t] : t \in Frags}
         \cup {[kind |-> "raise", text |-> <<>>]}
    ELSE {BadJson, NonObj}
         \cup {Obj("obj", "str", t, d, EmptyMap) : t \in Frags, d \in BOOLEAN}

ConcOutcomes(a) ==
    IF a = "gemini"
    THEN {[kind |-> "raise", e |-> "ConnectError"],
          [kind |-> "response", text |-> <<"a", "b">>]}
    ELSE {[kind |-> "raise", e |-> "ConnectError"],
          Obj("obj", "str", <<"a", "b">>, FALSE, EmptyMap)}

Event(kind, arg) == [kind |-> kind, arg |-> arg]

InitFrame(req) ==
    [request |-> req, pc |-> "idle", chunks |-> <<>>, result |-> <<>>,
     accumulated_text |-> <<>>, prompt_tokens |-> 0, cur |-> NoItem,
     trace |-> <<>>]

\* One step of a call of adapter a in frame f: the non-streaming call, the
\* start of the stream, the processing of one native item, the end of the
\* native stream, a failure of the iteration, the resumption after a yield.
FrameStep(a, f, ev) ==
    LET req == f.request
        acc == f.accumulated_text
        pt == f.prompt_tokens
        g == [f EXCEPT !.trace = Append(f.trace, ev)]
    IN
    IF ev.kind = "call"
    THEN [g EXCEPT !.pc = "returned",
                   !.result =
                     <<IF a = "gemini"
                       THEN GeminiGenerateResult(req.prompt, req.system_prompt,
                                                 ev.arg)
                       ELSE OllamaGenerateResult(req.prompt, req.system_prompt,
                                                 ev.arg)>>]
    ELSE IF ev.kind = "start"
    THEN IF ev.arg # None
         THEN [g EXCEPT !.pc = "y_outer",
                        !.chunks = <<IF a = "gemini"
                                     THEN GeminiStreamError(ev.arg)
                                     ELSE OllamaStreamError(ev.arg)>>]
         ELSE [g EXCEPT !.pc = "loop",
                        !.accumulated_text = <<>>,
                        !.prompt_tokens =
                          PromptTokens(req.prompt, req.system_prompt)]
    ELSE IF ev.kind = "item"
    THEN LET s == IF a = "gemini"
                  THEN GeminiProcessChunk(ev.arg, acc, pt)
                  ELSE OllamaProcessLine(ev.arg, acc, pt)
         IN  [g EXCEPT !.pc = s.pc, !.cur = ev.arg,
                       !.accumulated_text = s.acc,
                       !.chunks = f.chunks \o s.out]
    ELSE IF ev.kind = "exhausted"
    THEN IF a = "gemini"
         THEN [g EXCEPT !.pc = "y_stop",
                        !.chunks = Append(f.chunks, GeminiStopChunk(pt, acc))]
         ELSE [g EXCEPT !.pc = "ended"]
    ELSE IF ev.kind = "iter_error"
    THEN [g EXCEPT !.pc = "y_outer",
                   !.chunks = Append(f.chunks,
                                     IF a = "gemini"
                                     THEN GeminiStreamError(ev.arg)
                                     ELSE OllamaStreamError(ev.arg))]
    ELSE \* "resume"
         LET after == IF a = "gemini" THEN GeminiAfterYield(f.pc)
                      ELSE OllamaAfterYield(f.pc)
         IN  IF after = "exit" THEN [g EXCEPT !.pc = "ended"]
             ELSE IF after = "done_check"
             THEN LET s == OllamaDoneCheck(f.cur, acc, pt)
                  IN  [g EXCEPT !.pc = s.pc, !.chunks = f.chunks \o s.out]
             ELSE [g EXCEPT !.pc = after]

\* Variant: the accumulated text is an attribute of the instance.
AccOwner_Instance(c) == 1

\* The frame that holds the accumulated text call c reads and writes:
\* accumulated_text is a local of the generator, one per call.
AccOwner(c) == c

NumItems(f) ==
    Cardinality({i \in 1..Len(f.trace) : f.trace[i].kind = "item"})

\* Call c takes the step ev.
Do(c, ev) ==
    LET own == AccOwner(c)
        f == calls[c]
        n == FrameStep(adapter,
                       [f EXCEPT !.accumulated_text = calls[own].accumulated_text],
                       ev)
    IN  /\ calls' = [calls EXCEPT
                       ![c] = [n EXCEPT !.accumulated_text = f.accumulated_text],
                       ![own].accumulated_text = n.accumulated_text]
        /\ UNCHANGED <<adapter, config, request, pc, consumer, requested,
                       chunks, result, accumulated_text, prompt_tokens, cur,
                       consumed, failure, connOpen, backendCalls, sent>>

ConcInit ==
    /\ adapter \in {"gemini", "ollama"}
    /\ config = [base_url |-> DefaultBaseUrl, api_key |-> None]
    /\ calls \in {[c \in CallIds |-> InitFrame(r[c])] :
                    r \in [CallIds -> UNION {ConcRequests(c) : c \in CallIds}]}
    /\ \A c \in CallIds : calls[c].request \in ConcRequests(c)
    /\ request = calls[1].request
    /\ InitCall

ConcGenerate ==
    \E c \in CallIds, out \in ConcOutcomes(adapter) :
        /\ calls[c].pc = "idle" /\ ~calls[c].request.stream
        /\ Do(c, Event("call", out))

ConcStreamStart ==
    \E c \in CallIds, e \in {None, "ConnectError"} :
        /\ calls[c].pc = "idle" /\ calls[c].request.stream
        /\ Do(c, Event("start", e))

ConcNextItem ==
    \E c \in CallIds, item \in ConcItems(adapter) :
        /\ calls[c].pc = "loop" /\ NumItems(calls[c]) < MaxConcItems
        /\ Do(c, Event("item", item))

ConcExhausted ==
    \E c \in CallIds :
        /\ calls[c].pc = "loop"
        /\ Do(c, Event("exhausted", None))

ConcIterError ==
    \E c \in CallIds :
        /\ calls[c].pc = "loop"
        /\ Do(c, Event("iter_error", "ReadTimeout"))

ConcResume ==
    \E c \in CallIds :
        /\ calls[c].pc \in AtYield
        /\ Do(c, Event("resume", None))

ConcNext ==
    \/ ConcGenerate
    \/ ConcStreamStart
    \/ ConcNextItem
    \/ ConcExhausted
    \/ ConcIterError
    \/ ConcResume

ConcSpec == ConcInit /\ [][ConcNext]_vars

(***************************************************************************)
(* C14: in every interleaving of two calls on one instance, each call is   *)
(* at the position, and has produced the chunks (texts, usage counts) or   *)
(* the result, that it produces when it takes the same steps alone on the  *)
(* same backend responses.                                                 *)
(***************************************************************************)
\* The frame of a call that takes the steps of trace alone.
RECURSIVE RunAlone(_, _, _)
RunAlone(a, req, trace) ==
    IF trace = <<>> THEN InitFrame(req)
    ELSE FrameStep(a, RunAlone(a, req, SubSeq(trace, 1, Len(trace) - 1)),
                   Last(trace))

C14_ConcurrentCallsIndependent ==
    \A c \in DOMAIN calls :
        LET alone == RunAlone(adapter, calls[c].request, calls[c].trace)
        IN  /\ calls[c].chunks = alone.chunks
            /\ calls[c].result = alone.result
            /\ calls[c].pc = alone.pc
            /\ calls[c].accumulated_text = alone.accumulated_text

\* Two streams in progress at once, each holding an incremental chunk of
\* its own, with different accumulated texts.
C14_Witness ==
    /\ DOMAIN calls = CallIds
    /\ \A c \in CallIds :
         /\ calls[c].pc = "y_text"
         /\ Len(calls[c].chunks) = 2
    /\ calls[1].accumulated_text # calls[2].accumulated_text

(***************************************************************************)
(* C15: a caller that iterates the value of generate(stream=True)          *)
(* directly, with no step between the call and the iteration, receives the *)
(* chunks of the stream: no exception is raised to it.                     *)
(***************************************************************************)
C15_DirectIterationYieldsChunks ==
    request.stream => consumer # "raised"

(***************************************************************************)
(* C16: a generate() call, streaming or not, issues one request to the     *)
(* backend whether the request succeeds or fails: never a second one, and  *)
(* exactly one once the body of the call has run.                          *)
(***************************************************************************)
C16_OneBackendRequest ==
    /\ backendCalls <= 1
    /\ pc \in {"returned", "loop", "ended"} \cup AtYield => backendCalls = 1

\* A call whose backend request failed and has been answered.
C16_Witness ==
    /\ failure # NoFailure /\ failure.at \in {"call", "start"}
    /\ pc \in {"returned", "ended"}
    /\ backendCalls = 1

(***************************************************************************)
(* The requests of OllamaModel over every configuration and every value of *)
(* the optional arguments                                                  *)
(***************************************************************************)
WireInit ==
    /\ adapter = "ollama"
    /\ config \in [base_url : BaseUrls, api_key : ApiKeys]
    /\ request \in Requests(MaxTokensValues, StopValues)
    /\ InitCall
    /\ calls = <<>>

WireNext ==
    \/ OllamaGenerate
    \/ GenerateStream
    \/ Request
    \/ OllamaStreamStart

WireSpec == WireInit /\ [][WireNext]_vars

(***************************************************************************)
(* C17: for every configured base URL, with or without a path component or *)
(* a trailing slash, both paths of OllamaModel send a POST to the base URL *)
(* followed by /api/chat.                                                  *)
(***************************************************************************)
C17_PostToBaseUrlApiChat ==
    \A i \in 1..Len(sent) :
        /\ sent[i].method = "POST"
        /\ sent[i].url.origin = config.base_url.origin
        /\ sent[i].url.path = config.base_url.path \o <<"api", "chat">>

(***************************************************************************)
(* C18: in the payload of both paths of OllamaModel, options holds         *)
(* num_predict exactly when max_tokens is set, with its value, and stop    *)
(* exactly when stop_sequences is set, with its value, for every value of  *)
(* the two arguments, 0 and the empty list included.                       *)
(***************************************************************************)
C18_OptionalFieldsSentWhenSet ==
    \A i \in 1..Len(sent) :
        LET o == sent[i].json.options
        IN  /\ "num_predict" \in DOMAIN o <=> request.max_tokens.some
            /\ "num_predict" \in DOMAIN o
                 => o.num_predict = request.max_tokens.v
            /\ "stop" \in DOMAIN o <=> request.stop_sequences.some
            /\ "stop" \in DOMAIN o => o.stop = request.stop_sequences.v

(***************************************************************************)
(* C19: an Ollama stream reads no line after the one that terminated it:   *)
(* a line with done true, or a line whose processing raised, is the last   *)
(* line obtained from the response.                                        *)
(***************************************************************************)
Terminates(j) == Raises(j) \/ (j.kind = "obj" /\ j.done)

C19_NoLineReadAfterTermination ==
    Streaming("ollama")
    => \A i \in 1..Len(consumed) :
         Terminates(consumed[i]) => i = Len(consumed)

\* A stream that ended on a per-line exception while the response could
\* still deliver lines.
C19_Witness ==
    /\ Streaming("ollama") /\ Ended
    /\ consumed # <<>> /\ Raises(Last(consumed))
    /\ Len(consumed) < MaxItems
    /\ chunks # <<>> /\ Last(chunks).finish_reason = "error"

(***************************************************************************)
(* C20: streaming is pull-driven: the chunks produced never outnumber the  *)
(* chunks requested, and a native chunk or response line is obtained from  *)
(* the backend only while a request of the consumer is pending.            *)
(***************************************************************************)
C20_PullDriven ==
    /\ [](request.stream => Len(chunks) <= requested)
    /\ [][(request.stream /\ consumed' # consumed) => consumer = "waiting"]_vars

\* The consumer holds the second chunk and has not asked for a third, while
\* the backend could still deliver input.
C20_Witness ==
    /\ request.stream /\ consumer = "idle" /\ pc = "y_text"
    /\ requested >= 2 /\ Len(chunks) = requested
    /\ Len(consumed) < MaxItems

(***************************************************************************)
(* C21: the completion_tokens of an incremental chunk is the estimate of   *)
(* the concatenation of the texts of the incremental chunks up to and      *)
(* including it; the completion_tokens of the "stop" chunk is the estimate *)
(* of the concatenation of all of them: the value of the last incremental  *)
(* chunk if there is one, the estimate of "" if there is none.             *)
(***************************************************************************)
C21_CumulativeCountIsExact ==
    request.stream
    => \A i \in 1..Len(chunks) :
         /\ chunks[i].finish_reason = None
            => chunks[i].usage.completion_tokens
                 = Estimate(ConcatText(SubSeq(chunks, 1, i)))
         /\ chunks[i].finish_reason = "stop"
            => /\ chunks[i].usage.completion_tokens
                    = Estimate(ConcatText(SubSeq(chunks, 1, i)))
               /\ \A k \in Indices(None) :
                    (k < i /\ \A m \in Indices(None) : m < i => m <= k)
                    => chunks[i].usage.completion_tokens
                         = chunks[k].usage.completion_tokens
               /\ {k \in Indices(None) : k < i} = {}
                    => chunks[i].usage.completion_tokens = Estimate(<<>>)

\* A finished stream whose two fragments "b", "a" make one token together.
C21_Witness ==
    /\ request.stream /\ Ended
    /\ chunks # <<>> /\ Last(chunks).finish_reason = "stop"
    /\ Cardinality(Indices(None)) = 2
    /\ ConcatText(chunks) = <<"b", "a">>
    /\ Last(chunks).usage.completion_tokens = 1

(***************************************************************************)
(* C22: prompt_tokens depends on the request only: in the non-streaming    *)
(* result and in every usage-carrying chunk it is the estimate of the      *)
(* prompt plus, when a non-empty system prompt is given, the estimate of   *)
(* the system prompt; it does not change from chunk to chunk.              *)
(***************************************************************************)
RequestPromptTokens ==
    Estimate(request.prompt)
    + (IF request.system_prompt.some /\ request.system_prompt.v # <<>>
       THEN Estimate(request.system_prompt.v) ELSE 0)

C22_PromptTokensFromRequest ==
    /\ \A i \in 1..Len(result) :
         result[i].usage # EmptyMap
         => result[i].usage.prompt_tokens = RequestPromptTokens
    /\ \A i \in Counted :
         chunks[i].usage.prompt_tokens = RequestPromptTokens

\* An Ollama stream with a counted system prompt and three usage-carrying
\* chunks over growing output.
C22_Witness ==
    /\ Streaming("ollama") /\ Truthy(request.system_prompt)
    /\ Cardinality(Counted) >= 3
    /\ chunks[1].usage.completion_tokens
         # chunks[Len(chunks)].usage.completion_tokens
    /\ chunks[1].usage.prompt_tokens
         = Estimate(request.prompt) + Estimate(request.system_prompt.v)

(***************************************************************************)
(* C23: in every stream a chunk with finish_reason null has a non-empty    *)
(* text, the text of exactly one backend fragment (items with empty or     *)
(* missing text yield no such chunk); a "stop" chunk has text ""; and      *)
(* finish_reason is null on every chunk except the last.                   *)
(***************************************************************************)
IsIncremental(d) == d.finish_reason = None
HasText(item) == TextOf(item) # <<>>

C23_FragmentAndFinishReason ==
    request.stream
    => /\ LET inc == SelectSeq(chunks, IsIncremental)
              frags == SelectSeq(consumed, HasText)
          IN  /\ Len(inc) = Len(frags)
              /\ \A k \in 1..Len(inc) :
                   inc[k].text # <<>> /\ inc[k].text = TextOf(frags[k])
       /\ \A i \in Indices("stop") : chunks[i].text = <<>>
       /\ \A i \in 1..Len(chunks) :
            i < Len(chunks) => chunks[i].finish_reason = None

(***************************************************************************)
(* C24: usage is the empty map exactly on the results and chunks whose     *)
(* finish_reason is "error": every "stop" result or chunk and every        *)
(* incremental chunk carries the three token counts, and an error carries  *)
(* no usage field even after chunks with non-zero counts.                  *)
(***************************************************************************)
UsageMatchesFinishReason(d) ==
    /\ d.usage = EmptyMap <=> d.finish_reason = "error"
    /\ d.finish_reason # "error"
       => {"prompt_tokens", "completion_tokens", "total_tokens"}
            \subseteq DOMAIN d.usage

C24_UsageEmptyIffError ==
    /\ \A i \in 1..Len(result) : UsageMatchesFinishReason(result[i])
    /\ \A i \in 1..Len(chunks) : UsageMatchesFinishReason(chunks[i])

\* A Gemini stream in which the processing of a native chunk raised after
\* an incremental chunk with a non-zero count.
C24_Witness ==
    /\ Streaming("gemini")
    /\ Len(chunks) >= 2
    /\ chunks[1].finish_reason = None
    /\ chunks[1].usage.completion_tokens >= 1
    /\ Last(chunks).finish_reason = "error"
    /\ Last(chunks).text = <<>>

(***************************************************************************)
(* C25: the usage of a successful non-streaming Ollama result and of the   *)
(* "stop" chunk of an Ollama stream holds eval_count, eval_duration and    *)
(* total_duration, each with the value of the response body (of the        *)
(* done:true line) when it is there and 0 when it is not; an incremental   *)
(* chunk holds none of them.                                               *)
(***************************************************************************)
MetricKeys == {"eval_count", "eval_duration", "total_duration"}

MetricsFrom(d, j) ==
    /\ MetricKeys \subseteq DOMAIN d.usage
    /\ \A key \in MetricKeys :
         d.usage[key] = (IF key \in DOMAIN j.metrics THEN j.metrics[key] ELSE 0)

C25_BackendMetrics ==
    adapter = "ollama"
    => /\ \A i \in 1..Len(result) :
            result[i].finish_reason = "stop"
            => consumed # <<>> /\ MetricsFrom(result[i], consumed[1])
       /\ \A i \in Indices("stop") :
            consumed # <<>> /\ Last(consumed).kind = "obj"
            /\ Last(consumed).done
            /\ MetricsFrom(chunks[i], Last(consumed))
       /\ \A i \in Indices(None) : DOMAIN chunks[i].usage \cap MetricKeys = {}

\* A stream whose done:true line carries one of the three metrics, after an
\* incremental chunk.
C25_Witness ==
    /\ Streaming("ollama") /\ Ended
    /\ Indices(None) # {}
    /\ chunks # <<>> /\ Last(chunks).finish_reason = "stop"
    /\ consumed # <<>> /\ Last(consumed).kind = "obj"
    /\ DOMAIN Last(consumed).metrics = {"eval_count"}
    /\ Last(chunks).usage.eval_count = 3
    /\ Last(chunks).usage.eval_duration = 0

====
